---- MODULE Spec2Model ----
(***************************************************************************)
(* whyhttp: the request model (src/src/request.rs) and the expectation     *)
(* matchers (src/src/matchers.rs).                                         *)
(*                                                                         *)
(* Representation.  A String is a sequence of one-character strings.       *)
(* An Option<T> is a sequence of length at most one: None is << >> and     *)
(* Some(x) is <<x>>.  A character that a string literal cannot carry is    *)
(* written as its code point, "U+000B".  The characters of the model are   *)
(* the printable ASCII characters, the ASCII control characters and the    *)
(* Unicode white space.  A HashMap is the sequence of its entries <<k, v>> *)
(* in the order its iterator yields them, with the capacity of its table;  *)
(* two maps are equal (PartialEq) when they hold the same set of entries.  *)
(***************************************************************************)
EXTENDS Integers, Sequences, FiniteSets, TLC

\* req:      the Request value under construction
\* peer:     a second Request value, built independently of req
\* rendered: the text Display wrote last for req and for peer, each kept
\*           with the request it renders (None before the first call)
\* inner:    the list of an aggregator, Matchers.inner
\* result:   what the last call of validate or is_matched returned
\* lastOp:   the operation called last, with its argument
VARIABLES req, peer, rendered, inner, result, lastOp

vars == <<req, peer, rendered, inner, result, lastOp>>

(***************************************************************************)
(* Bounds of the exploration.                                              *)
(***************************************************************************)
\* longest text handed to the parser
MaxTextLen == 3
\* longest list of matchers an aggregator is constructed with
MaxMatchers == 3

(***************************************************************************)
(* Options and strings.                                                    *)
(***************************************************************************)
None == << >>
Some(x) == <<x>>
IsSome(o) == o # None
IsNone(o) == o = None

Range(s) == {s[i] : i \in 1..Len(s)}

Lower == <<"a", "b", "c", "d", "e", "f", "g", "h", "i", "j", "k", "l", "m",
           "n", "o", "p", "q", "r", "s", "t", "u", "v", "w", "x", "y", "z">>
Upper == <<"A", "B", "C", "D", "E", "F", "G", "H", "I", "J", "K", "L", "M",
           "N", "O", "P", "Q", "R", "S", "T", "U", "V", "W", "X", "Y", "Z">>

\* char::to_uppercase on the ASCII range
upper_char(c) ==
    IF \E i \in 1..Len(Lower) : Lower[i] = c
    THEN Upper[CHOOSE i \in 1..Len(Lower) : Lower[i] = c]
    ELSE c

\* str::to_uppercase
to_uppercase(s) == [i \in 1..Len(s) |-> upper_char(s[i])]

\* char::is_whitespace: the characters with the White_Space property
WhiteSpace ==
    {" ", "\t", "\n", "\r", "\f", "U+000B", "U+0085", "U+00A0", "U+1680",
     "U+2000", "U+2001", "U+2002", "U+2003", "U+2004", "U+2005", "U+2006",
     "U+2007", "U+2008", "U+2009", "U+200A", "U+2028", "U+2029", "U+202F",
     "U+205F", "U+3000"}

\* str::trim_start / str::trim_end / str::trim
RECURSIVE trim_start(_)
trim_start(s) ==
    IF s # << >> /\ Head(s) \in WhiteSpace THEN trim_start(Tail(s)) ELSE s

RECURSIVE trim_end(_)
trim_end(s) ==
    IF s # << >> /\ s[Len(s)] \in WhiteSpace
    THEN trim_end(SubSeq(s, 1, Len(s) - 1))
    ELSE s

trim(s) == trim_end(trim_start(s))

\* str::trim_start_matches with a one-character pattern: every leading
\* occurrence of c is removed
RECURSIVE trim_start_matches(_, _)
trim_start_matches(s, c) ==
    IF s # << >> /\ Head(s) = c THEN trim_start_matches(Tail(s), c) ELSE s

\* position of the first occurrence of the character d in s, 0 if none
find(s, d) ==
    IF \E i \in 1..Len(s) : s[i] = d
    THEN CHOOSE i \in 1..Len(s) : s[i] = d /\ \A j \in 1..(i - 1) : s[j] # d
    ELSE 0

\* str::split_once(d): None, or Some(<<before, after>>)
split_once(s, d) ==
    LET i == find(s, d)
    IN  IF i = 0 THEN None
        ELSE Some(<<SubSeq(s, 1, i - 1), SubSeq(s, i + 1, Len(s))>>)

\* split_str_by: <<left, Option right>>, an empty right part being None
split_str_by(input, delimiter) ==
    LET so == split_once(input, delimiter)
    IN  IF IsSome(so)
        THEN <<so[1][1], IF so[1][2] = << >> THEN None ELSE Some(so[1][2])>>
        ELSE <<input, None>>

\* str::split(d) collected: the pieces between the occurrences of d
RECURSIVE split(_, _)
split(s, d) ==
    LET i == find(s, d)
    IN  IF i = 0 THEN <<s>>
        ELSE <<SubSeq(s, 1, i - 1)>> \o split(SubSeq(s, i + 1, Len(s)), d)

RECURSIVE Concat(_)
Concat(ss) == IF ss = << >> THEN << >> ELSE Head(ss) \o Concat(Tail(ss))

\* [String]::join(sep)
RECURSIVE join(_, _)
join(ss, sep) ==
    IF ss = << >> THEN << >>
    ELSE IF Len(ss) = 1 THEN ss[1]
    ELSE ss[1] \o sep \o join(Tail(ss), sep)

\* the characters char::escape_debug writes as \u{..}, each with the
\* hexadecimal digits written: the control characters but NUL, tab, line
\* feed and carriage return, and the white space but the space
UnicodeEscaped ==
    <<<<"U+0001", <<"1">>>>, <<"U+0002", <<"2">>>>, <<"U+0003", <<"3">>>>,
      <<"U+0004", <<"4">>>>, <<"U+0005", <<"5">>>>, <<"U+0006", <<"6">>>>,
      <<"U+0007", <<"7">>>>, <<"U+0008", <<"8">>>>, <<"U+000B", <<"b">>>>,
      <<"\f", <<"c">>>>, <<"U+000E", <<"e">>>>, <<"U+000F", <<"f">>>>,
      <<"U+0010", <<"1", "0">>>>, <<"U+0011", <<"1", "1">>>>,
      <<"U+0012", <<"1", "2">>>>, <<"U+0013", <<"1", "3">>>>,
      <<"U+0014", <<"1", "4">>>>, <<"U+0015", <<"1", "5">>>>,
      <<"U+0016", <<"1", "6">>>>, <<"U+0017", <<"1", "7">>>>,
      <<"U+0018", <<"1", "8">>>>, <<"U+0019", <<"1", "9">>>>,
      <<"U+001A", <<"1", "a">>>>, <<"U+001B", <<"1", "b">>>>,
      <<"U+001C", <<"1", "c">>>>, <<"U+001D", <<"1", "d">>>>,
      <<"U+001E", <<"1", "e">>>>, <<"U+001F", <<"1", "f">>>>,
      <<"U+007F", <<"7", "f">>>>, <<"U+0085", <<"8", "5">>>>,
      <<"U+00A0", <<"a", "0">>>>, <<"U+1680", <<"1", "6", "8", "0">>>>,
      <<"U+2000", <<"2", "0", "0", "0">>>>, <<"U+2001", <<"2", "0", "0", "1">>>>,
      <<"U+2002", <<"2", "0", "0", "2">>>>, <<"U+2003", <<"2", "0", "0", "3">>>>,
      <<"U+2004", <<"2", "0", "0", "4">>>>, <<"U+2005", <<"2", "0", "0", "5">>>>,
      <<"U+2006", <<"2", "0", "0", "6">>>>, <<"U+2007", <<"2", "0", "0", "7">>>>,
      <<"U+2008", <<"2", "0", "0", "8">>>>, <<"U+2009", <<"2", "0", "0", "9">>>>,
      <<"U+200A", <<"2", "0", "0", "a">>>>, <<"U+2028", <<"2", "0", "2", "8">>>>,
      <<"U+2029", <<"2", "0", "2", "9">>>>, <<"U+202F", <<"2", "0", "2", "f">>>>,
      <<"U+205F", <<"2", "0", "5", "f">>>>, <<"U+3000", <<"3", "0", "0", "0">>>>>>

\* char::escape_debug, as <str as Debug>::fmt applies it: quote, backslash,
\* NUL, tab, line feed and carriage return have a short escape, the other
\* characters that are not printable are written \u{..}
escape_char(c) ==
    CASE c = "\"" -> <<"\\", "\"">>
      [] c = "\\" -> <<"\\", "\\">>
      [] c = "\n" -> <<"\\", "n">>
      [] c = "\t" -> <<"\\", "t">>
      [] c = "\r" -> <<"\\", "r">>
      [] c = "U+0000" -> <<"\\", "0">>
      [] \E i \in 1..Len(UnicodeEscaped) : UnicodeEscaped[i][1] = c ->
            <<"\\", "u", "{">>
            \o UnicodeEscaped[CHOOSE i \in 1..Len(UnicodeEscaped) :
                                  UnicodeEscaped[i][1] = c][2]
            \o <<"}">>
      [] OTHER -> <<c>>

debug_str(s) ==
    <<"\"">> \o Concat([i \in 1..Len(s) |-> escape_char(s[i])]) \o <<"\"">>

(***************************************************************************)
(* HashMap.                                                                *)
(***************************************************************************)
\* HashMap::default: no entry, no table allocated
EmptyMap == [entries |-> << >>, cap |-> 0]

\* HashMap::iter: the entries in the order the iterator yields them
iter(map) == map.entries

\* HashMap::is_empty
is_empty(map) == map.entries = << >>

Keys(map) == {map.entries[i][1] : i \in 1..Len(map.entries)}

\* HashMap::contains_key
contains_key(map, k) == k \in Keys(map)

\* HashMap::get: Option of the value stored under k
get(map, k) ==
    IF contains_key(map, k)
    THEN Some(map.entries[CHOOSE i \in 1..Len(map.entries) : map.entries[i][1] = k][2])
    ELSE None

\* HashMap == HashMap: the same entries, whatever the iteration order and
\* the capacity
map_eq(m1, m2) == Range(m1.entries) = Range(m2.entries)

Perms(S) ==
    {p \in [1..Cardinality(S) -> S] : \A i, j \in 1..Cardinality(S) : p[i] = p[j] => i = j}

\* the capacity of the table a full table of capacity cap is moved to:
\* 3, 7, 14, 28, 56, ... entries (4, 8, 16, 32, 64, ... buckets)
RECURSIVE power_of_two_from(_, _)
power_of_two_from(p, n) == IF p >= n THEN p ELSE power_of_two_from(2 * p, n)

\* usize::next_power_of_two
next_power_of_two(n) == power_of_two_from(1, n)

\* the buckets of a table for c entries, and the entries a table of b
\* buckets takes before it is full
capacity_to_buckets(c) ==
    IF c < 4 THEN 4 ELSE IF c < 8 THEN 8 ELSE next_power_of_two((c * 8) \div 7)

bucket_capacity(b) == IF b < 8 THEN b - 1 ELSE (b \div 8) * 7

grown(cap) == bucket_capacity(capacity_to_buckets(cap + 1))

\* HashMap::insert reserves room for one more entry before it looks the key
\* up: a table that is full is reallocated and every entry hashed again,
\* whether the key is present or new
reserves(map) == Len(map.entries) = map.cap

\* HashMap::insert.  Where an entry falls in the iteration order depends on
\* the map's random hash state: every outcome is possible.  After a
\* reallocation the entries may come in any order.  Without it a key already
\* present keeps its slot, a new key falls anywhere among the others, and
\* the others keep their relative order.
insert(map, k, v) ==
    LET old == map.entries
        kept == {old[i] : i \in {j \in 1..Len(old) : old[j][1] # k}}
    IN  IF reserves(map)
        THEN {[entries |-> p, cap |-> grown(map.cap)] : p \in Perms(kept \cup {<<k, v>>})}
        ELSE IF contains_key(map, k)
        THEN {[map EXCEPT !.entries =
                  [i \in 1..Len(old) |-> IF old[i][1] = k THEN <<k, v>> ELSE old[i]]]}
        ELSE {[map EXCEPT !.entries =
                  SubSeq(old, 1, i) \o <<<<k, v>>>> \o SubSeq(old, i + 1, Len(old))] :
                i \in 0..Len(old)}

\* Iterator::collect into a HashMap: the pairs are inserted in turn, a later
\* pair replacing an earlier one with the same key
RECURSIVE collect(_, _)
collect(maps, pairs) ==
    IF pairs = << >> THEN maps
    ELSE collect(UNION {insert(m, pairs[1][1], pairs[1][2]) : m \in maps},
                 Tail(pairs))

(***************************************************************************)
(* Request.                                                                *)
(***************************************************************************)
\* impl Default for Request
Default ==
    [method |-> <<"G", "E", "T">>,
     path |-> <<"/">>,
     query |-> EmptyMap,
     fragment |-> None,
     headers |-> EmptyMap,
     body |-> None]

\* #[derive(PartialEq)] on Request
request_eq(r1, r2) ==
    /\ r1.method = r2.method
    /\ r1.path = r2.path
    /\ map_eq(r1.query, r2.query)
    /\ r1.fragment = r2.fragment
    /\ map_eq(r1.headers, r2.headers)
    /\ r1.body = r2.body

set_path(r, path) == [r EXCEPT !.path = path]
set_method(r, method) == [r EXCEPT !.method = method]
set_fragment(r, fragment) == [r EXCEPT !.fragment = Some(fragment)]
set_body(r, body) == [r EXCEPT !.body = Some(body)]
\* the two map setters yield the set of requests the insertion can produce
set_query(r, key, value) ==
    {[r EXCEPT !.query = q] : q \in insert(r.query, key, value)}
set_header(r, key, value) ==
    {[r EXCEPT !.headers = h] : h \in insert(r.headers, key, value)}

with_path(r, path) == set_path(r, path)
with_method(r, method) == set_method(r, method)
with_fragment(r, fragment) == set_fragment(r, fragment)
with_body(r, body) == set_body(r, body)
with_query(r, key, value) == set_query(r, key, value)
with_header(r, key, value) == set_header(r, key, value)

\* the (key, Option value) pairs of a query string
query_pairs(query) ==
    LET parts == split(query, "&")
    IN  [i \in 1..Len(parts) |-> split_str_by(parts[i], "=")]

\* impl From<&str> for Request: the set of requests the conversion can
\* produce (they differ in the iteration order of the query map only)
from(value) ==
    LET pf == split_str_by(trim_start_matches(trim(value), "/"), "#")
        pq == split_str_by(pf[1], "?")
        request == [Default EXCEPT !.path = <<"/">> \o pq[1], !.fragment = pf[2]]
    IN  IF IsSome(pq[2])
        THEN {[request EXCEPT !.query = q] :
                q \in collect({EmptyMap}, query_pairs(pq[2][1]))}
        ELSE {request}

\* impl Display for Request
query_item(e) == IF IsSome(e[2]) THEN e[1] \o <<"=">> \o e[2][1] ELSE e[1]
header_item(e) == debug_str(e[1]) \o <<" ", "=", " ">> \o debug_str(e[2])

fmt(r) ==
    <<"[">> \o to_uppercase(r.method) \o <<" ">> \o r.path
    \o (IF ~is_empty(r.query)
        THEN <<"?">> \o join([i \in 1..Len(iter(r.query)) |-> query_item(iter(r.query)[i])],
                              <<"&">>)
        ELSE << >>)
    \o (IF IsSome(r.fragment) THEN <<"#">> \o r.fragment[1] ELSE << >>)
    \o (IF ~is_empty(r.headers)
        THEN <<" ", "|", " ", "w", "i", "t", "h", " ", "h", "e", "a", "d", "e", "r", "s", " ", "{">>
             \o join([i \in 1..Len(iter(r.headers)) |-> header_item(iter(r.headers)[i])],
                     <<",", " ">>)
             \o <<"}">>
        ELSE << >>)
    \o (IF IsSome(r.body)
        THEN <<" ", "|", " ", "w", "i", "t", "h", " ", "b", "o", "d", "y", " ">>
             \o debug_str(r.body[1])
        ELSE << >>)
    \o <<"]">>

(***************************************************************************)
(* Matcher.                                                                *)
(***************************************************************************)
\* enum Matcher: the variants, as records of one shape (an unused field is
\* the empty string)
Method(expected) == [kind |-> "Method", key |-> << >>, val |-> expected]
Path(expected) == [kind |-> "Path", key |-> << >>, val |-> expected]
QueryExists(k) == [kind |-> "QueryExists", key |-> k, val |-> << >>]
QueryMiss(k) == [kind |-> "QueryMiss", key |-> k, val |-> << >>]
QueryEq(k, v) == [kind |-> "QueryEq", key |-> k, val |-> v]
FragmentEq(expected) == [kind |-> "FragmentEq", key |-> << >>, val |-> expected]
FragmentMiss == [kind |-> "FragmentMiss", key |-> << >>, val |-> << >>]
HeaderExists(k) == [kind |-> "HeaderExists", key |-> k, val |-> << >>]
HeaderMiss(k) == [kind |-> "HeaderMiss", key |-> k, val |-> << >>]
HeaderEq(k, v) == [kind |-> "HeaderEq", key |-> k, val |-> v]
BodyMiss == [kind |-> "BodyMiss", key |-> << >>, val |-> << >>]
BodyEq(expected) == [kind |-> "BodyEq", key |-> << >>, val |-> expected]

\* How a call of Matcher::validate ends: it returns an Option<Matcher>, or
\* it panics (Option::unwrap on None).
Returned(o) == [panic |-> FALSE, ret |-> o]
Panic == [panic |-> TRUE, ret |-> None]

\* Option::unwrap panics on None, and yields the value held otherwise
unwrap_panics(o) == IsNone(o)
unwrap(o) == o[1]

\* the arms of Matcher::validate
MethodArm_CaseSensitive(expected, request) ==
    IF request.method # expected
    THEN Returned(Some(Method(request.method)))
    ELSE Returned(None)

MethodArm(expected, request) ==
    IF to_uppercase(request.method) # to_uppercase(expected)
    THEN Returned(Some(Method(request.method)))
    ELSE Returned(None)

PathArm(expected, request) ==
    IF request.path # expected
    THEN Returned(Some(Path(request.path)))
    ELSE Returned(None)

QueryEqArm_ValuelessAsEmpty(key, expected_val, request) ==
    LET got == get(request.query, key)
    IN  IF IsSome(got) /\ IsSome(got[1]) /\ got[1][1] = expected_val
        THEN Returned(None)
        ELSE IF IsSome(got) /\ IsSome(got[1])
        THEN Returned(Some(QueryEq(key, got[1][1])))
        ELSE IF IsSome(got)
        THEN Returned(Some(QueryEq(key, << >>)))
        ELSE Returned(Some(QueryMiss(key)))

QueryEqArm(key, expected_val, request) ==
    LET got == get(request.query, key)
    IN  IF IsSome(got) /\ IsSome(got[1]) /\ got[1][1] = expected_val
        THEN Returned(None)
        ELSE IF IsSome(got) /\ IsSome(got[1])
        THEN Returned(Some(QueryEq(key, got[1][1])))
        ELSE IF IsSome(got)
        THEN Returned(Some(QueryExists(key)))
        ELSE Returned(Some(QueryMiss(key)))

QueryExistsArm(key, request) ==
    IF ~contains_key(request.query, key)
    THEN Returned(Some(QueryMiss(key)))
    ELSE Returned(None)

QueryMissArm(key, request) ==
    IF contains_key(request.query, key)
    THEN Returned(Some(QueryExists(key)))
    ELSE Returned(None)

HeaderEqArm_ReportsExpected(key, expected_val, request) ==
    LET got == get(request.headers, key)
    IN  IF IsSome(got) /\ got[1] = expected_val
        THEN Returned(None)
        ELSE IF IsSome(got)
        THEN Returned(Some(HeaderEq(key, expected_val)))
        ELSE Returned(Some(HeaderMiss(key)))

HeaderEqArm(key, expected_val, request) ==
    LET got == get(request.headers, key)
    IN  IF IsSome(got) /\ got[1] = expected_val
        THEN Returned(None)
        ELSE IF IsSome(got)
        THEN Returned(Some(HeaderEq(key, got[1])))
        ELSE Returned(Some(HeaderMiss(key)))

HeaderExistsArm(key, request) ==
    IF ~contains_key(request.headers, key)
    THEN Returned(Some(HeaderMiss(key)))
    ELSE Returned(None)

HeaderMissArm(key, request) ==
    IF contains_key(request.headers, key)
    THEN Returned(Some(HeaderExists(key)))
    ELSE Returned(None)

FragmentEqArm(expected, request) ==
    IF IsSome(request.fragment) /\ request.fragment[1] = expected
    THEN Returned(None)
    ELSE IF IsSome(request.fragment)
    THEN Returned(Some(FragmentEq(request.fragment[1])))
    ELSE Returned(Some(FragmentMiss))

FragmentMissArm_Unguarded(request) ==
    IF unwrap_panics(request.fragment) THEN Panic
    ELSE Returned(Some(FragmentEq(unwrap(request.fragment))))

FragmentMissArm(request) ==
    IF IsSome(request.fragment)
    THEN IF unwrap_panics(request.fragment) THEN Panic
         ELSE Returned(Some(FragmentEq(unwrap(request.fragment))))
    ELSE Returned(None)

BodyEqArm(expected, request) ==
    IF IsSome(request.body) /\ request.body[1] = expected
    THEN Returned(None)
    ELSE IF IsSome(request.body)
    THEN Returned(Some(BodyEq(request.body[1])))
    ELSE Returned(Some(BodyMiss))

BodyMissArm(request) ==
    IF IsSome(request.body)
    THEN IF unwrap_panics(request.body) THEN Panic
         ELSE Returned(Some(BodyEq(unwrap(request.body))))
    ELSE Returned(None)

\* Matcher::validate
validate(m, request) ==
    CASE m.kind = "Method" -> MethodArm(m.val, request)
      [] m.kind = "Path" -> PathArm(m.val, request)
      [] m.kind = "QueryEq" -> QueryEqArm(m.key, m.val, request)
      [] m.kind = "QueryExists" -> QueryExistsArm(m.key, request)
      [] m.kind = "QueryMiss" -> QueryMissArm(m.key, request)
      [] m.kind = "HeaderEq" -> HeaderEqArm(m.key, m.val, request)
      [] m.kind = "HeaderExists" -> HeaderExistsArm(m.key, request)
      [] m.kind = "HeaderMiss" -> HeaderMissArm(m.key, request)
      [] m.kind = "FragmentEq" -> FragmentEqArm(m.val, request)
      [] m.kind = "FragmentMiss" -> FragmentMissArm(request)
      [] m.kind = "BodyEq" -> BodyEqArm(m.val, request)
      [] m.kind = "BodyMiss" -> BodyMissArm(request)

(***************************************************************************)
(* Matchers.                                                               *)
(***************************************************************************)
\* Matchers::add: the body is empty, the list is left as it was
add(list, matcher) == list

is_matched_Any(list, request) ==
    \E i \in 1..Len(list) : IsNone(validate(list[i], request).ret)

\* Matchers::is_matched
is_matched(list, request) ==
    \A i \in 1..Len(list) : IsNone(validate(list[i], request).ret)

\* the filter_map(..).collect() of Matchers::validate
RECURSIVE filter_map_validate(_, _)
filter_map_validate(list, request) ==
    IF list = << >> THEN << >>
    ELSE validate(Head(list), request).ret \o filter_map_validate(Tail(list), request)

RECURSIVE first_error(_, _)
first_error(list, request) ==
    IF list = << >> THEN << >>
    ELSE IF IsSome(validate(Head(list), request).ret)
    THEN validate(Head(list), request).ret
    ELSE first_error(Tail(list), request)

Matchers_validate_ShortCircuit(list, request) ==
    LET errors == first_error(list, request)
    IN  IF errors = << >> THEN None ELSE Some(errors)

\* Matchers::validate
Matchers_validate(list, request) ==
    LET errors == filter_map_validate(list, request)
    IN  IF errors = << >> THEN None ELSE Some(errors)

(***************************************************************************)
(* Inputs of the exploration.                                              *)
(***************************************************************************)
UriChars == {"/", "?", "#", "=", "&", " ", "\f", "a"}

\* the texts handed to the parser: every text of at most MaxTextLen characters
Texts == UNION {[1..n -> UriChars] : n \in 0..MaxTextLen}

\* the texts the requests that the setters then change are parsed from
SampleUris ==
    {<< >>,
     <<"/", "a">>,
     <<"/", "/", "a">>,
     <<" ", "/", "a", "?", "a", " ">>,
     <<"?", "a", "=", "a", "&", "b", "&", "a">>,
     <<"/", "a", "?", "a", "=", "a", "&", "b", "#", "f">>}

MethodInputs == {<<"p", "o", "s", "t">>}
MethodsExpected == {<<"g", "e", "t">>, <<"P", "O", "S", "T">>, <<"G", "E", "T">>}
PathInputs == {<< >>, <<"/", "b">>, <<"b">>}
PathsExpected == {<<"/">>, <<"/", "b">>, <<"/", "B">>}
QueryKeys == {<<"a">>, <<"b">>}
QueryValues == {<<"a">>, <<"b">>}
HeaderKeys == {<<"h">>, <<"i">>}
HeaderValues == {<<"x">>, <<"y">>}
FragmentInputs == {<<"f">>, <<"g">>}
BodyInputs == {<<"b">>, <<"c">>}

\* the matchers validated one at a time
AllMatchers ==
    {Method(e) : e \in MethodsExpected}
    \cup {Path(e) : e \in PathsExpected}
    \cup {QueryExists(k) : k \in QueryKeys}
    \cup {QueryMiss(k) : k \in QueryKeys}
    \cup {QueryEq(k, v) : k \in QueryKeys, v \in QueryValues}
    \cup {FragmentEq(<<"f">>), FragmentMiss}
    \cup {HeaderExists(k) : k \in HeaderKeys}
    \cup {HeaderMiss(k) : k \in HeaderKeys}
    \cup {HeaderEq(k, <<"x">>) : k \in HeaderKeys}
    \cup {BodyMiss, BodyEq(<<"b">>)}

\* the matchers aggregators are constructed from
ListMatchers ==
    {Method(<<"g", "e", "t">>), Path(<<"/", "a">>),
     QueryExists(<<"b">>), QueryEq(<<"a">>, <<"a">>),
     FragmentMiss, FragmentEq(<<"f">>),
     HeaderEq(<<"h">>, <<"y">>), BodyMiss}

MatcherLists == UNION {[1..n -> ListMatchers] : n \in 0..MaxMatchers}

\* the requests aggregators are evaluated on: parsed, some built on further
SampleRequests ==
    LET parsed == UNION {from(u) : u \in {<< >>, <<"/", "a">>,
                            <<"/", "a", "?", "a", "=", "a", "&", "b", "#", "f">>}}
    IN  parsed \cup
        UNION {with_header(with_body(with_method(r, <<"p", "o", "s", "t">>), <<"b">>),
                           <<"h">>, <<"x">>) : r \in from(<<"/", "a">>)}

NoOutput == <<None, None>>

(***************************************************************************)
(* Operations on the request req.                                          *)
(***************************************************************************)
Op(name, arg) == [op |-> name, arg |-> arg]

FromStr(text) ==
    /\ req' \in from(text)
    /\ lastOp' = Op("from", text)
    /\ UNCHANGED <<peer, rendered, inner, result>>

SetPath(p) ==
    /\ req' = set_path(req, p)
    /\ lastOp' = Op("set_path", p)
    /\ UNCHANGED <<peer, rendered, inner, result>>

SetMethod(m) ==
    /\ req' = set_method(req, m)
    /\ lastOp' = Op("set_method", m)
    /\ UNCHANGED <<peer, rendered, inner, result>>

SetFragment(f) ==
    /\ req' = set_fragment(req, f)
    /\ lastOp' = Op("set_fragment", f)
    /\ UNCHANGED <<peer, rendered, inner, result>>

SetBody(b) ==
    /\ req' = set_body(req, b)
    /\ lastOp' = Op("set_body", b)
    /\ UNCHANGED <<peer, rendered, inner, result>>

SetQuery(k, v) ==
    /\ req' \in set_query(req, k, v)
    /\ lastOp' = Op("set_query", k)
    /\ UNCHANGED <<peer, rendered, inner, result>>

SetHeader(k, v) ==
    /\ req' \in set_header(req, k, v)
    /\ lastOp' = Op("set_header", k)
    /\ UNCHANGED <<peer, rendered, inner, result>>

WithPath(p) ==
    /\ req' = with_path(req, p)
    /\ lastOp' = Op("with_path", p)
    /\ UNCHANGED <<peer, rendered, inner, result>>

WithMethod(m) ==
    /\ req' = with_method(req, m)
    /\ lastOp' = Op("with_method", m)
    /\ UNCHANGED <<peer, rendered, inner, result>>

WithFragment(f) ==
    /\ req' = with_fragment(req, f)
    /\ lastOp' = Op("with_fragment", f)
    /\ UNCHANGED <<peer, rendered, inner, result>>

WithBody(b) ==
    /\ req' = with_body(req, b)
    /\ lastOp' = Op("with_body", b)
    /\ UNCHANGED <<peer, rendered, inner, result>>

WithQuery(k, v) ==
    /\ req' \in with_query(req, k, v)
    /\ lastOp' = Op("with_query", k)
    /\ UNCHANGED <<peer, rendered, inner, result>>

WithHeader(k, v) ==
    /\ req' \in with_header(req, k, v)
    /\ lastOp' = Op("with_header", k)
    /\ UNCHANGED <<peer, rendered, inner, result>>

\* format!("{}", req): the output is kept with the request it renders
Display ==
    /\ rendered' = [rendered EXCEPT ![1] = Some([of |-> req, text |-> fmt(req)])]
    /\ lastOp' = Op("fmt", << >>)
    /\ UNCHANGED <<req, peer, inner, result>>

(***************************************************************************)
(* The same operations on a second request, peer, built on its own.        *)
(***************************************************************************)
PeerSetQuery(k, v) ==
    /\ peer' \in set_query(peer, k, v)
    /\ lastOp' = Op("peer.set_query", k)
    /\ UNCHANGED <<req, rendered, inner, result>>

PeerSetHeader(k, v) ==
    /\ peer' \in set_header(peer, k, v)
    /\ lastOp' = Op("peer.set_header", k)
    /\ UNCHANGED <<req, rendered, inner, result>>

PeerDisplay ==
    /\ rendered' = [rendered EXCEPT ![2] = Some([of |-> peer, text |-> fmt(peer)])]
    /\ lastOp' = Op("peer.fmt", << >>)
    /\ UNCHANGED <<req, peer, inner, result>>

(***************************************************************************)
(* Operations of Matcher and Matchers.                                     *)
(***************************************************************************)
\* m.validate(&req)
ValidateOne(m) ==
    /\ result' = validate(m, req)
    /\ lastOp' = Op("validate", m)
    /\ UNCHANGED <<req, peer, rendered, inner>>

\* matchers.add(m)
Add(m) ==
    /\ inner' = add(inner, m)
    /\ lastOp' = Op("add", [matcher |-> m, before |-> inner])
    /\ UNCHANGED <<req, peer, rendered, result>>

\* matchers.is_matched(&req)
IsMatched ==
    /\ result' = is_matched(inner, req)
    /\ lastOp' = Op("is_matched", << >>)
    /\ UNCHANGED <<req, peer, rendered, inner>>

\* matchers.validate(&req)
ValidateAll ==
    /\ result' = Matchers_validate(inner, req)
    /\ lastOp' = Op("validate_all", << >>)
    /\ UNCHANGED <<req, peer, rendered, inner>>

(***************************************************************************)
(* Specifications.                                                         *)
(***************************************************************************)
\* Request::default(), an empty aggregator, nothing rendered or validated
Init ==
    /\ req = Default
    /\ peer = Default
    /\ rendered = NoOutput
    /\ inner = << >>
    /\ result = None
    /\ lastOp = Op("default", << >>)

\* The life of one request: constructed by default or from a text, then
\* changed by the setters and the with_ forms.
Next ==
    \/ \E t \in SampleUris : FromStr(t)
    \/ \E p \in PathInputs : SetPath(p)
    \/ \E p \in PathInputs : WithPath(p)
    \/ \E m \in MethodInputs : SetMethod(m)
    \/ \E m \in MethodInputs : WithMethod(m)
    \/ SetFragment(<<"f">>)
    \/ WithFragment(<<"f">>)
    \/ SetBody(<<"b">>)
    \/ WithBody(<<"b">>)
    \/ \E v \in {None, Some(<<"a">>)} : SetQuery(<<"a">>, v)
    \/ \E v \in {None, Some(<<"a">>)} : WithQuery(<<"a">>, v)
    \/ SetHeader(<<"h">>, <<"x">>)
    \/ WithHeader(<<"h">>, <<"x">>)

Spec == Init /\ [][Next]_vars

\* The parser applied to every text of the bound.
NextParse == \E t \in Texts : FromStr(t)

SpecParse == Init /\ [][NextParse]_vars

\* One matcher validated against the requests the setters build.
NextValidate ==
    \/ \E p \in {<<"/", "b">>} : SetPath(p)
    \/ \E m \in MethodInputs : SetMethod(m)
    \/ \E f \in FragmentInputs : SetFragment(f)
    \/ \E b \in BodyInputs : SetBody(b)
    \/ \E v \in {None} \cup {Some(x) : x \in QueryValues} : SetQuery(<<"a">>, v)
    \/ SetQuery(<<"b">>, None)
    \/ \E v \in HeaderValues : SetHeader(<<"h">>, v)
    \/ \E m \in AllMatchers : ValidateOne(m)

SpecValidate == Init /\ [][NextValidate]_vars

\* An aggregator constructed with a list of matchers (Matchers { inner }),
\* and a request, on which add, is_matched and validate are called.
InitMatchers ==
    /\ req \in SampleRequests
    /\ peer = Default
    /\ rendered = NoOutput
    /\ inner \in MatcherLists
    /\ result = None
    /\ lastOp = Op("new", << >>)

NextMatchers ==
    \/ \E m \in ListMatchers : Add(m)
    \/ IsMatched
    \/ ValidateAll

SpecMatchers == InitMatchers /\ [][NextMatchers]_vars

\* Two requests built independently, each rendered.
NextDisplay ==
    \/ \E k \in QueryKeys : SetQuery(k, None)
    \/ \E k \in QueryKeys : PeerSetQuery(k, None)
    \/ SetHeader(<<"h">>, <<"\"", "\f">>)
    \/ PeerSetHeader(<<"h">>, <<"\"", "\f">>)
    \/ Display
    \/ PeerDisplay

SpecDisplay == Init /\ [][NextDisplay]_vars

(***************************************************************************)
(* Properties.                                                             *)
(***************************************************************************)
Validated == lastOp.op = "validate"

Kinds ==
    {"Method", "Path", "QueryExists", "QueryMiss", "QueryEq", "FragmentEq",
     "FragmentMiss", "HeaderExists", "HeaderMiss", "HeaderEq", "BodyMiss", "BodyEq"}

\* C1: fixed point.  When a matcher's validate returns Some(v2) for a
\* request, v2.validate on the same request returns None.
FixedPoint ==
    (Validated /\ IsSome(result.ret)) => validate(result.ret[1], req) = Returned(None)

\* a HeaderEq matcher failed on a header holding another value, and reported it
FixedPointWitness ==
    /\ Validated
    /\ lastOp.arg = HeaderEq(<<"h">>, <<"x">>)
    /\ result.ret = Some(HeaderEq(<<"h">>, <<"y">>))

\* C2: consistency.  is_matched returns true exactly when validate of the
\* same aggregator on the same request returns None, the empty list included.
Consistency ==
    /\ lastOp.op = "is_matched" => (result <=> IsNone(Matchers_validate(inner, req)))
    /\ lastOp.op = "validate_all" => (IsNone(result) <=> is_matched(inner, req))

\* is_matched answered false for a list with a passing and a failing matcher
ConsistencyWitness ==
    /\ lastOp.op = "is_matched"
    /\ result = FALSE
    /\ \E i, j \in 1..Len(inner) :
          /\ IsNone(validate(inner[i], req).ret)
          /\ IsSome(validate(inner[j], req).ret)

Failing(list, request) == {i \in 1..Len(list) : IsSome(validate(list[i], request).ret)}

\* C3: Matchers::validate returns None when no matcher fails, and otherwise
\* the diagnostics of exactly the failing matchers, one each, in the order
\* of the matchers in the list: the diagnostic of the n-th failing matcher
\* is the n-th entry.
OrderPreserved ==
    lastOp.op = "validate_all" =>
        LET F == Failing(inner, req)
        IN  IF F = {} THEN result = None
            ELSE /\ Len(result) = 1
                 /\ Len(result[1]) = Cardinality(F)
                 /\ \A i \in F :
                       result[1][Cardinality({j \in F : j <= i})]
                           = validate(inner[i], req).ret[1]

\* two different diagnostics were returned for a list whose first and third
\* matchers fail and whose second passes
OrderPreservedWitness ==
    /\ lastOp.op = "validate_all"
    /\ Len(inner) = 3
    /\ Failing(inner, req) = {1, 3}
    /\ Len(result[1]) = 2
    /\ result[1][1] # result[1][2]

Valueless(k) == <<k, None>> \in Range(req.query.entries)
ValueOf(k, v) == <<k, Some(v)>> \in Range(req.query.entries)
Absent(k) == \A e \in Range(req.query.entries) : e[1] # k

\* C4: for a query key present with no value, QueryExists passes and
\* QueryEq reports QueryExists(k) whatever value it expects; for a key with
\* a value v other than the expected one QueryEq reports QueryEq(k, v); for
\* an absent key it reports QueryMiss(k).
QueryAsymmetry ==
    Validated =>
        LET m == lastOp.arg
        IN  /\ (m.kind = "QueryExists" /\ Valueless(m.key)) => result.ret = None
            /\ (m.kind = "QueryEq" /\ Valueless(m.key))
                  => result.ret = Some(QueryExists(m.key))
            /\ \A v \in QueryValues :
                  (m.kind = "QueryEq" /\ ValueOf(m.key, v) /\ v # m.val)
                      => result.ret = Some(QueryEq(m.key, v))
            /\ (m.kind = "QueryEq" /\ Absent(m.key))
                  => result.ret = Some(QueryMiss(m.key))

\* QueryEq was validated on a key present with no value
QueryAsymmetryWitness ==
    /\ Validated
    /\ lastOp.arg.kind = "QueryEq"
    /\ Valueless(lastOp.arg.key)
    /\ result.ret = Some(QueryExists(lastOp.arg.key))

SameLetter(c, d) ==
    c = d \/ \E i \in 1..Len(Lower) : {c, d} = {Lower[i], Upper[i]}

EqIgnoreCase(s, t) ==
    Len(s) = Len(t) /\ \A i \in 1..Len(s) : SameLetter(s[i], t[i])

\* C5: Method(e) passes exactly when the request's method equals e
\* ignoring letter case, and otherwise reports Method of the request's
\* method as it is stored; Path(e) passes exactly when the request's path
\* is e character for character, and otherwise reports Path of the path.
CaseHandling ==
    Validated =>
        LET m == lastOp.arg
        IN  /\ m.kind = "Method" =>
                  /\ IsNone(result.ret) <=> EqIgnoreCase(req.method, m.val)
                  /\ IsSome(result.ret) => result.ret = Some(Method(req.method))
            /\ m.kind = "Path" =>
                  /\ IsNone(result.ret) <=> req.path = m.val
                  /\ IsSome(result.ret) => result.ret = Some(Path(req.path))

\* Method("POST") passed on a request whose method is stored as "post"
CaseHandlingWitness ==
    /\ Validated
    /\ lastOp.arg = Method(<<"P", "O", "S", "T">>)
    /\ req.method = <<"p", "o", "s", "t">>
    /\ result.ret = None

\* C6: the path of a request is never empty and begins with "/".
PathInvariant == req.path # << >> /\ Head(req.path) = "/"

\* the text before the first "#" or "?"
BeforeDelimiters(s) ==
    IF \E i \in 1..Len(s) : s[i] \in {"#", "?"}
    THEN SubSeq(s, 1, (CHOOSE i \in 1..Len(s) :
                          /\ s[i] \in {"#", "?"}
                          /\ \A j \in 1..(i - 1) : s[j] \notin {"#", "?"}) - 1)
    ELSE s

StripOneSlash(s) == IF s # << >> /\ Head(s) = "/" THEN Tail(s) ELSE s

\* C7: add appends: after add(m) the list is the list before, followed by m.
AddAppends ==
    lastOp.op = "add" => inner = Append(lastOp.arg.before, lastOp.arg.matcher)

\* C8: two requests that are equal field by field are rendered as the same
\* string.
RenderingDeterministic ==
    \A i, j \in 1..2 :
        (IsSome(rendered[i]) /\ IsSome(rendered[j])
            /\ request_eq(rendered[i][1].of, rendered[j][1].of))
        => rendered[i][1].text = rendered[j][1].text

\* C9: the parsed path is "/" followed by the trimmed text with one leading
\* "/" removed, up to its first "#" or "?".
ParserStripsOneSlash ==
    lastOp.op = "from" =>
        req.path = <<"/">> \o BeforeDelimiters(StripOneSlash(trim(lastOp.arg)))

\* C10: validate never panics: it returns None or Some of a matcher.
NeverPanics ==
    Validated =>
        /\ ~result.panic
        /\ \/ result.ret = None
           \/ Len(result.ret) = 1 /\ result.ret[1].kind \in Kinds

\* FragmentMiss was validated on a request with a fragment, and extracted it
NeverPanicsWitness ==
    /\ Validated
    /\ lastOp.arg = FragmentMiss
    /\ req.fragment = Some(<<"g">>)
    /\ result = Returned(Some(FragmentEq(<<"g">>)))

====
